---------------------------- MODULE Spec2Model ----------------------------
(***************************************************************************)
(* A model of the brainfck interpreter (src/brainfck.cpp): the context_t   *)
(* object (tape, slot pointer, operation counter and ceiling) and one run  *)
(* of context_t::execute over a code vector, an input stream and an output *)
(* stream.  One action is one iteration of the for loop of execute: the    *)
(* ceiling check, the switch, the handler it calls and the ++cp of the     *)
(* loop header.                                                            *)
(*                                                                         *)
(* Positions are 1-based here: begin (code) is 1 and code_end is           *)
(* Len (code) + 1; begin (slots_) is 1.  "Index 0" of the tape in the      *)
(* prose is slot_ = 1 in the model.                                        *)
(***************************************************************************)
EXTENDS Integers, Sequences, FiniteSets, TLC

VARIABLES
  code,                  \* the vector <char> handed to execute
  input,                 \* the whole content of the std::istream
  in_pos,                \* number of chars already taken from input by get ()
  out,                   \* the chars written to the std::ostream so far
  slots_,                \* context_t::slots_, a vector of unsigned char
  slot_,                 \* context_t::slot_, as an index into slots_
  operation_count_max_,  \* context_t::operation_count_max_
  operation_count_,      \* context_t::operation_count_
  operation_count_start, \* local of execute
  stash,                 \* local of execute: stack of code positions, top last
  cp,                    \* local of execute: the code iterator
  pc,                    \* "idle" | "run" | "done" | "error"
  err,                   \* what () of the exception that left execute
  result,                \* value returned by the last call that returned
  h_dispatched,          \* history: chars that reached the switch of execute
  h_opcodes,             \* history: of those, the ones matching a case label
  h_reads,               \* history: `,` dispatched while input remained
  h_high                 \* history: the highest value slot_ has had

vars == <<code, input, in_pos, out, slots_, slot_, operation_count_max_,
          operation_count_, operation_count_start, stash, cp, pc, err,
          result, h_dispatched, h_opcodes, h_reads, h_high>>

-----------------------------------------------------------------------------
(* Bounds of the model *)

MaxLen == 3
MaxLoopLen == 4
MaxInput == 1
MaxCeiling == 4

\* the counter-loop programs: n, m and k of CounterLoop
MaxN == 16
MaxM == 16
MaxK == 5

\* the read-and-write programs and their inputs
MaxEchoLen == 6
MaxEchoInput == 3

\* the there-and-back programs: the number of `>`
MaxShuttle == 12

-----------------------------------------------------------------------------
(* Program constants *)

DEFAULT_MAX_OPERATIONS == 100000

\* unsigned char arithmetic is modulo 2^8
UCharRange == 256

\* std::char_traits <char>::eof ()
EOF == -1

NoError == "none"
OperationLimitExceeded == "max operations exceeded"
TapeUnderflow == "slot underflow"
BracketMismatchUnclosed == "bracket mismatch (no closing)"
BracketMismatchUnopened == "bracket mismatch (no opening)"

\* the case labels of the switch in execute
Opcodes == {"+", "-", "<", ">", ".", ",", "[", "]"}

\* no call has returned a value
NoValue == "none"

-----------------------------------------------------------------------------
(* The inputs the model draws from *)

\* one char that matches no case label stands for all of them
Alphabet == Opcodes \cup {"x"}

InputBytes == {0, 255}

SeqsUpTo(S, n) == UNION {[1..k -> S] : k \in 0..n}

\* the chars that make counting loops
LoopAlphabet == {"+", "-", "[", "]"}

\* every short text over all chars, and every slightly longer text of loops
Programs == SeqsUpTo(Alphabet, MaxLen) \cup SeqsUpTo(LoopAlphabet, MaxLoopLen)

Inputs == SeqsUpTo(InputBytes, MaxInput)

Rep(ch, n) == [i \in 1..n |-> ch]

\* n `+`, `[>`, m `+`, `<-]>`, k `+`, `.`
CounterLoop(n, m, k) ==
  Rep("+", n) \o <<"[", ">">> \o Rep("+", m) \o <<"<", "-", "]", ">">>
    \o Rep("+", k) \o <<".">>

\* n `>` followed by n `<`
Shuttle(n) == Rep(">", n) \o Rep("<", n)

\* the chars that read, write and change a cell
EchoAlphabet == {",", ".", "+"}

EchoPrograms == SeqsUpTo(EchoAlphabet, MaxEchoLen)

EchoInputs == SeqsUpTo(InputBytes, MaxEchoInput)

\* n repetitions of `,.`
Echo(n) == [i \in 1..(2 * n) |-> IF i % 2 = 1 THEN "," ELSE "."]

-----------------------------------------------------------------------------
(* Helpers *)

code_end == Len(code) + 1

\* *slot_
Cell == slots_[slot_]

\* std::istream::peek on the input stream
Peek == IF in_pos < Len(input) THEN input[in_pos + 1] ELSE EOF

\* the exception is caught inside the loop and the loop goes on
Throw_swallowed(what) ==
  /\ pc' = "run"
  /\ err' = what

\* an exception leaves execute: the run is over
Throw(what) ==
  /\ pc' = "error"
  /\ err' = what

\* the switch was reached and no handler threw: the loop header does ++cp
\* on the iterator value the handler left
Advance(it) ==
  /\ pc' = "run"
  /\ cp' = it + 1
  /\ err' = err

\* for-loop guard and `if (++operation_count_ > operation_count_max_)`
Fetch(chars) ==
  /\ pc = "run"
  /\ cp # code_end
  /\ code[cp] \in chars
  /\ operation_count_' = operation_count_ + 1

\* the ceiling check written with >= : one dispatch too few
Exceeded_at_ceiling == operation_count_ + 1 >= operation_count_max_

\* the ceiling check with the increment after the comparison: one dispatch
\* too many
Exceeded_post_increment == operation_count_ > operation_count_max_

Exceeded == operation_count_ + 1 > operation_count_max_

ThrowExceeded ==
  /\ Throw(OperationLimitExceeded)
  /\ UNCHANGED <<cp, slots_, slot_, stash, in_pos, out, h_dispatched, h_opcodes,
                 h_reads>>

\* bookkeeping of the history variables for a char that reached the switch
Dispatched ==
  /\ h_dispatched' = h_dispatched + 1
  /\ h_opcodes' = IF code[cp] \in Opcodes THEN h_opcodes + 1 ELSE h_opcodes
  /\ h_reads' = IF code[cp] = "," /\ in_pos < Len(input) THEN h_reads + 1 ELSE h_reads

\* bookkeeping of h_high, once the step has settled slot_
TrackHigh == h_high' = IF slot_' > h_high THEN slot_' ELSE h_high

frame == <<code, input, operation_count_max_, operation_count_start, result>>

-----------------------------------------------------------------------------
(* State after construction *)

Init ==
  /\ code = <<>>
  /\ input = <<>>
  /\ in_pos = 0
  /\ out = <<>>
  /\ slots_ = <<0>>
  /\ slot_ = 1
  /\ operation_count_max_ = DEFAULT_MAX_OPERATIONS
  /\ operation_count_ = 0
  /\ operation_count_start = 0
  /\ stash = <<>>
  /\ cp = 1
  /\ pc = "idle"
  /\ err = NoError
  /\ result = NoValue
  /\ h_dispatched = 0
  /\ h_opcodes = 0
  /\ h_reads = 0
  /\ h_high = 1

-----------------------------------------------------------------------------
(* Operations *)

set_max_operations(max_operations) ==
  /\ pc = "idle"
  /\ operation_count_max_' = max_operations
  /\ result' = operation_count_max_
  /\ UNCHANGED <<code, input, in_pos, out, slots_, slot_, operation_count_,
                 operation_count_start, stash, cp, pc, err, h_dispatched,
                 h_opcodes, h_reads, h_high>>

\* entry of execute: the locals are set up, the loop has not run yet
execute(code_arg, input_arg) ==
  /\ pc = "idle"
  /\ code' = code_arg
  /\ input' = input_arg
  /\ operation_count_start' = operation_count_
  /\ stash' = <<>>
  /\ cp' = 1
  /\ pc' = "run"
  /\ result' = NoValue
  /\ UNCHANGED <<in_pos, out, slots_, slot_, operation_count_max_,
                 operation_count_, err, h_dispatched, h_opcodes, h_reads,
                 h_high>>

\* a return that rejects a loop stack left non-empty
Return_checked ==
  /\ pc = "run"
  /\ cp = code_end
  /\ IF stash = <<>>
     THEN /\ pc' = "done"
          /\ err' = err
          /\ result' = operation_count_ - operation_count_start
     ELSE /\ Throw(BracketMismatchUnclosed)
          /\ result' = result
  /\ UNCHANGED <<code, input, in_pos, out, slots_, slot_, operation_count_max_,
                 operation_count_, operation_count_start, stash, cp,
                 h_dispatched, h_opcodes, h_reads, h_high>>

\* the loop guard fails: return operation_count_ - operation_count_start
Return ==
  /\ pc = "run"
  /\ cp = code_end
  /\ pc' = "done"
  /\ result' = operation_count_ - operation_count_start
  /\ UNCHANGED <<code, input, in_pos, out, slots_, slot_, operation_count_max_,
                 operation_count_, operation_count_start, stash, cp, err,
                 h_dispatched, h_opcodes, h_reads, h_high>>

\* increment on a cell wider than a byte
increment_no_wrap ==
  /\ Fetch({"+"})
  /\ IF Exceeded THEN ThrowExceeded
     ELSE /\ slots_' = [slots_ EXCEPT ![slot_] = @ + 1]
          /\ Advance(cp)
          /\ Dispatched
          /\ UNCHANGED <<slot_, stash, in_pos, out>>
  /\ UNCHANGED frame
  /\ TrackHigh

increment ==
  /\ Fetch({"+"})
  /\ IF Exceeded THEN ThrowExceeded
     ELSE /\ slots_' = [slots_ EXCEPT ![slot_] = (@ + 1) % UCharRange]
          /\ Advance(cp)
          /\ Dispatched
          /\ UNCHANGED <<slot_, stash, in_pos, out>>
  /\ UNCHANGED frame
  /\ TrackHigh

decrement ==
  /\ Fetch({"-"})
  /\ IF Exceeded THEN ThrowExceeded
     ELSE /\ slots_' = [slots_ EXCEPT ![slot_] = (@ - 1) % UCharRange]
          /\ Advance(cp)
          /\ Dispatched
          /\ UNCHANGED <<slot_, stash, in_pos, out>>
  /\ UNCHANGED frame
  /\ TrackHigh

\* prev_slot without its bounds check: the pointer is clamped at the first slot
prev_slot_clamped ==
  /\ Fetch({"<"})
  /\ IF Exceeded THEN ThrowExceeded
     ELSE /\ slot_' = IF slot_ = 1 THEN 1 ELSE slot_ - 1
          /\ Advance(cp)
          /\ Dispatched
          /\ UNCHANGED <<slots_, stash, in_pos, out>>
  /\ UNCHANGED frame
  /\ TrackHigh

prev_slot ==
  /\ Fetch({"<"})
  /\ IF Exceeded THEN ThrowExceeded
     ELSE /\ IF slot_ = 1
             THEN /\ Throw(TapeUnderflow)
                  /\ UNCHANGED <<slot_, cp>>
             ELSE /\ slot_' = slot_ - 1
                  /\ Advance(cp)
          /\ Dispatched
          /\ UNCHANGED <<slots_, stash, in_pos, out>>
  /\ UNCHANGED frame
  /\ TrackHigh

\* next_slot that grows the tape but leaves slot_ on the old last cell
next_slot_grow_only ==
  /\ Fetch({">"})
  /\ IF Exceeded THEN ThrowExceeded
     ELSE /\ IF slot_ + 1 = Len(slots_) + 1
             THEN /\ slots_' = Append(slots_, 0)
                  /\ slot_' = slot_
             ELSE /\ slot_' = slot_ + 1
                  /\ UNCHANGED slots_
          /\ Advance(cp)
          /\ Dispatched
          /\ UNCHANGED <<stash, in_pos, out>>
  /\ UNCHANGED frame
  /\ TrackHigh

\* next_slot that appends a cell on every move to the right
next_slot_always_append ==
  /\ Fetch({">"})
  /\ IF Exceeded THEN ThrowExceeded
     ELSE /\ slots_' = Append(slots_, 0)
          /\ slot_' = slot_ + 1
          /\ Advance(cp)
          /\ Dispatched
          /\ UNCHANGED <<stash, in_pos, out>>
  /\ UNCHANGED frame
  /\ TrackHigh

next_slot ==
  /\ Fetch({">"})
  /\ IF Exceeded THEN ThrowExceeded
     ELSE /\ IF slot_ + 1 = Len(slots_) + 1
             THEN /\ slots_' = Append(slots_, 0)
                  /\ slot_' = Len(slots_')
             ELSE /\ slot_' = slot_ + 1
                  /\ UNCHANGED slots_
          /\ Advance(cp)
          /\ Dispatched
          /\ UNCHANGED <<stash, in_pos, out>>
  /\ UNCHANGED frame
  /\ TrackHigh

send_out ==
  /\ Fetch({"."})
  /\ IF Exceeded THEN ThrowExceeded
     ELSE /\ out' = Append(out, Cell)
          /\ Advance(cp)
          /\ Dispatched
          /\ UNCHANGED <<slots_, slot_, stash, in_pos>>
  /\ UNCHANGED frame
  /\ TrackHigh

\* read_in without the peek: at end of input the cell takes (unsigned char) EOF
read_in_unchecked ==
  /\ Fetch({","})
  /\ IF Exceeded THEN ThrowExceeded
     ELSE /\ slots_' = [slots_ EXCEPT ![slot_] = Peek % UCharRange]
          /\ in_pos' = IF EOF # Peek THEN in_pos + 1 ELSE in_pos
          /\ Advance(cp)
          /\ Dispatched
          /\ UNCHANGED <<slot_, stash, out>>
  /\ UNCHANGED frame
  /\ TrackHigh

\* read_in that stores the peeked char and never takes it from the stream
read_in_peek_only ==
  /\ Fetch({","})
  /\ IF Exceeded THEN ThrowExceeded
     ELSE /\ IF EOF # Peek
             THEN slots_' = [slots_ EXCEPT ![slot_] = Peek % UCharRange]
             ELSE UNCHANGED slots_
          /\ UNCHANGED in_pos
          /\ Advance(cp)
          /\ Dispatched
          /\ UNCHANGED <<slot_, stash, out>>
  /\ UNCHANGED frame
  /\ TrackHigh

read_in ==
  /\ Fetch({","})
  /\ IF Exceeded THEN ThrowExceeded
     ELSE /\ IF EOF # Peek
             THEN /\ slots_' = [slots_ EXCEPT ![slot_] = input[in_pos + 1] % UCharRange]
                  /\ in_pos' = in_pos + 1
             ELSE UNCHANGED <<slots_, in_pos>>
          /\ Advance(cp)
          /\ Dispatched
          /\ UNCHANGED <<slot_, stash, out>>
  /\ UNCHANGED frame
  /\ TrackHigh

\* the scan of start_loop: `while (++*it != code_end) if (']' == **it) return;`
\* yields the position the iterator is left at, code_end when the loop ran out
RECURSIVE ScanClose(_, _)
ScanClose(c, it) ==
  IF it + 1 = Len(c) + 1 THEN Len(c) + 1
  ELSE IF c[it + 1] = "]" THEN it + 1
  ELSE ScanClose(c, it + 1)

\* start_loop that pushes before it looks at the cell
start_loop_push_first ==
  /\ Fetch({"["})
  /\ IF Exceeded THEN ThrowExceeded
     ELSE /\ IF Cell # 0
             THEN /\ stash' = Append(stash, cp)
                  /\ Advance(cp)
             ELSE IF ScanClose(code, cp) # code_end
             THEN /\ Advance(ScanClose(code, cp))
                  /\ stash' = Append(stash, cp)
             ELSE /\ Throw(BracketMismatchUnclosed)
                  /\ cp' = code_end
                  /\ stash' = Append(stash, cp)
          /\ Dispatched
          /\ UNCHANGED <<slots_, slot_, in_pos, out>>
  /\ UNCHANGED frame
  /\ TrackHigh

start_loop ==
  /\ Fetch({"["})
  /\ IF Exceeded THEN ThrowExceeded
     ELSE /\ IF Cell # 0
             THEN /\ stash' = Append(stash, cp)
                  /\ Advance(cp)
             ELSE IF ScanClose(code, cp) # code_end
             THEN /\ Advance(ScanClose(code, cp))
                  /\ UNCHANGED stash
             ELSE /\ Throw(BracketMismatchUnclosed)
                  \* the iterator was moved to code_end before the throw
                  /\ cp' = code_end
                  /\ UNCHANGED stash
          /\ Dispatched
          /\ UNCHANGED <<slots_, slot_, in_pos, out>>
  /\ UNCHANGED frame
  /\ TrackHigh

\* end_loop without the empty-stack check: a stray `]` is passed over
end_loop_unchecked ==
  /\ Fetch({"]"})
  /\ IF Exceeded THEN ThrowExceeded
     ELSE /\ IF stash = <<>>
             THEN /\ Advance(cp)
                  /\ UNCHANGED stash
             ELSE IF Cell # 0
             THEN /\ Advance(stash[Len(stash)])
                  /\ UNCHANGED stash
             ELSE /\ stash' = SubSeq(stash, 1, Len(stash) - 1)
                  /\ Advance(cp)
          /\ Dispatched
          /\ UNCHANGED <<slots_, slot_, in_pos, out>>
  /\ UNCHANGED frame
  /\ TrackHigh

\* end_loop that never jumps back: every loop body runs once
end_loop_no_repeat ==
  /\ Fetch({"]"})
  /\ IF Exceeded THEN ThrowExceeded
     ELSE /\ IF stash = <<>>
             THEN /\ Throw(BracketMismatchUnopened)
                  /\ UNCHANGED <<cp, stash>>
             ELSE /\ stash' = SubSeq(stash, 1, Len(stash) - 1)
                  /\ Advance(cp)
          /\ Dispatched
          /\ UNCHANGED <<slots_, slot_, in_pos, out>>
  /\ UNCHANGED frame
  /\ TrackHigh

\* end_loop whose jump lands on the `[` itself, which is then run again
end_loop_onto_open ==
  /\ Fetch({"]"})
  /\ IF Exceeded THEN ThrowExceeded
     ELSE /\ IF stash = <<>>
             THEN /\ Throw(BracketMismatchUnopened)
                  /\ UNCHANGED <<cp, stash>>
             ELSE IF Cell # 0
             THEN /\ Advance(stash[Len(stash)] - 1)
                  /\ UNCHANGED stash
             ELSE /\ stash' = SubSeq(stash, 1, Len(stash) - 1)
                  /\ Advance(cp)
          /\ Dispatched
          /\ UNCHANGED <<slots_, slot_, in_pos, out>>
  /\ UNCHANGED frame
  /\ TrackHigh

end_loop ==
  /\ Fetch({"]"})
  /\ IF Exceeded THEN ThrowExceeded
     ELSE /\ IF stash = <<>>
             THEN /\ Throw(BracketMismatchUnopened)
                  /\ UNCHANGED <<cp, stash>>
             ELSE IF Cell # 0
             THEN /\ Advance(stash[Len(stash)])
                  /\ UNCHANGED stash
             ELSE /\ stash' = SubSeq(stash, 1, Len(stash) - 1)
                  /\ Advance(cp)
          /\ Dispatched
          /\ UNCHANGED <<slots_, slot_, in_pos, out>>
  /\ UNCHANGED frame
  /\ TrackHigh

\* a switch whose unknown chars fall into the case of `.`
no_case_writes ==
  /\ Fetch(Alphabet \ Opcodes)
  /\ IF Exceeded THEN ThrowExceeded
     ELSE /\ out' = Append(out, Cell)
          /\ Advance(cp)
          /\ Dispatched
          /\ UNCHANGED <<slots_, slot_, stash, in_pos>>
  /\ UNCHANGED frame
  /\ TrackHigh

\* a char with no case label: the switch does nothing
no_case ==
  /\ Fetch(Alphabet \ Opcodes)
  /\ IF Exceeded THEN ThrowExceeded
     ELSE /\ Advance(cp)
          /\ Dispatched
          /\ UNCHANGED <<slots_, slot_, stash, in_pos, out>>
  /\ UNCHANGED frame
  /\ TrackHigh

Step ==
  \/ increment
  \/ decrement
  \/ prev_slot
  \/ next_slot
  \/ send_out
  \/ read_in
  \/ start_loop
  \/ end_loop
  \/ no_case
  \/ Return

SetCeiling ==
  /\ pc = "idle"
  /\ \E k \in 0..MaxCeiling : set_max_operations(k)

\* runs are explored only under a small ceiling, so that every run is short
Execute ==
  /\ pc = "idle"
  /\ operation_count_max_ <= MaxCeiling
  /\ \E c \in Programs, i \in Inputs : execute(c, i)

Next == SetCeiling \/ Execute \/ Step

Spec == Init /\ [][Next]_vars

\* execute is sequential code: once entered, its loop keeps taking its next
\* iteration until it returns or throws
\* every program on the empty input, under a small ceiling
ExecuteNoInput ==
  /\ pc = "idle"
  /\ operation_count_max_ <= MaxCeiling
  /\ \E c \in Programs : execute(c, <<>>)

NextFair == SetCeiling \/ ExecuteNoInput \/ Step

SpecFair == Init /\ [][NextFair]_vars /\ WF_vars(Step)

\* the counter-loop programs on empty input, under the default ceiling
ExecuteCounterLoop ==
  /\ pc = "idle"
  /\ \E n \in 0..MaxN, m \in 0..MaxM, k \in 0..MaxK :
        execute(CounterLoop(n, m, k), <<>>)

NextCounterLoop ==
  \/ ExecuteCounterLoop
  \/ increment
  \/ decrement
  \/ prev_slot
  \/ next_slot
  \/ send_out
  \/ start_loop
  \/ end_loop
  \/ Return

SpecCounterLoop == Init /\ [][NextCounterLoop]_vars

\* the read-and-write programs, under the default ceiling
ExecuteEcho ==
  /\ pc = "idle"
  /\ \E c \in EchoPrograms, i \in EchoInputs : execute(c, i)

NextEcho ==
  \/ ExecuteEcho
  \/ read_in
  \/ send_out
  \/ increment
  \/ Return

SpecEcho == Init /\ [][NextEcho]_vars

\* the there-and-back programs on empty input, under the default ceiling
ExecuteShuttle ==
  /\ pc = "idle"
  /\ \E n \in 0..MaxShuttle : execute(Shuttle(n), <<>>)

NextShuttle ==
  \/ ExecuteShuttle
  \/ next_slot
  \/ prev_slot
  \/ Return

SpecShuttle == Init /\ [][NextShuttle]_vars

-----------------------------------------------------------------------------
(* Properties *)

\* the next iteration of the loop of execute passes the ceiling check and
\* hands a char of `chars` to the switch
Dispatching(chars) ==
  /\ pc = "run"
  /\ cp # code_end
  /\ code[cp] \in chars
  /\ ~Exceeded

\* this step ends the run with the exception `what`
Raises(what) == pc = "run" /\ pc' = "error" /\ err' = what

\* the `]` that closes the `[` at position p when brackets are paired by
\* nesting depth, 0 when there is none: the pairing the prose describes
RECURSIVE MatchFrom(_, _, _)
MatchFrom(c, i, depth) ==
  IF i > Len(c) THEN 0
  ELSE IF c[i] = "[" THEN MatchFrom(c, i + 1, depth + 1)
  ELSE IF c[i] = "]" THEN (IF depth = 0 THEN i ELSE MatchFrom(c, i + 1, depth - 1))
  ELSE MatchFrom(c, i + 1, depth)

MatchClose(c, p) == MatchFrom(c, p + 1, 0)

\* number of `[` before position p that are still open at p
RECURSIVE DepthAt(_, _)
DepthAt(c, p) ==
  IF p <= 1 THEN 0
  ELSE LET d == DepthAt(c, p - 1)
       IN  IF c[p - 1] = "[" THEN d + 1
           ELSE IF c[p - 1] = "]" /\ d > 0 THEN d - 1
           ELSE d

\* every `[` has its `]` and every `]` its `[`
Balanced(c) ==
  /\ DepthAt(c, Len(c) + 1) = 0
  /\ \A p \in 1..Len(c) : c[p] = "]" => DepthAt(c, p) > 0

BracketsOnly(c) == \A p \in 1..Len(c) : c[p] \in {"[", "]"}

\* first position of ch in c
FirstIndex(c, ch) ==
  CHOOSE i \in 1..Len(c) : c[i] = ch /\ \A j \in 1..(i - 1) : c[j] # ch

\* n, m and k of the counter-loop program c
LoopN(c) == FirstIndex(c, "[") - 1
LoopM(c) == FirstIndex(c, "<") - FirstIndex(c, "[") - 2
LoopK(c) == Len(c) - FirstIndex(c, "]") - 2

\* chars the run of CounterLoop(n, m, k) hands to the switch: the n `+`, the
\* `[` once, n passes over the m + 4 chars after it, then `>`, k `+` and `.`
LoopDispatches(n, m, k) == n + 1 + n * (m + 4) + 1 + k + 1

\* C1: the run of CounterLoop(n, m, k) on empty input raises nothing, can
\* always take its next step, hands exactly LoopDispatches(n, m, k) chars to
\* the switch, and ends with the output being the one byte (n*m + k) mod 256.
C1_CounterLoopOutput ==
  pc # "idle" =>
    LET n == LoopN(code)
        m == LoopM(code)
        k == LoopK(code)
    IN  /\ code = CounterLoop(n, m, k)
        /\ pc # "error"
        /\ h_dispatched <= LoopDispatches(n, m, k)
        /\ pc = "run" => ENABLED NextCounterLoop
        /\ pc = "done" =>
              /\ out = <<(n * m + k) % UCharRange>>
              /\ h_dispatched = LoopDispatches(n, m, k)

\* `++++++[>++++++++++<-]>+++++.` has ended with the output `A`
C1_Witness ==
  /\ pc = "done"
  /\ code = CounterLoop(6, 10, 5)
  /\ out = <<65>>

\* C2: a `[` dispatched on a zero cell whose matching `]` (by nesting depth)
\* exists leaves the iterator just past that matching `]`, with the cells, the
\* pointer, the loop stack and the output unchanged.
C2_SkipLandsPastMatchingClose ==
  [][ (Dispatching({"["}) /\ Cell = 0 /\ MatchClose(code, cp) # 0) =>
        /\ pc' = "run"
        /\ cp' = MatchClose(code, cp) + 1
        /\ UNCHANGED <<slots_, slot_, stash, out>> ]_vars

\* C3: a program of balanced brackets only, run from the all-zero tape, raises
\* no bracket error, never has a char inside a loop body up for dispatch, and
\* writes nothing.
C3_BalancedBracketsRunClean ==
  (pc # "idle" /\ BracketsOnly(code) /\ Balanced(code)) =>
    /\ out = <<>>
    /\ pc = "error" => err = OperationLimitExceeded
    /\ (pc = "run" /\ cp # code_end) => (code[cp] = "[" /\ DepthAt(code, cp) = 0)

C5_CountIsOpcodesDispatched == pc = "done" => result = h_opcodes

\* C6: a `]` dispatched on an empty loop stack raises BracketMismatchUnopened
\* whatever the cell and the input hold, a `]` dispatched on a non-empty stack
\* does not, and the program `]` fails with it as soon as one dispatch is
\* allowed.
C6_UnopenedExactlyOnEmptyStack ==
  [][ /\ Dispatching({"]"}) => (Raises(BracketMismatchUnopened) <=> stash = <<>>)
      /\ (pc = "run" /\ code = <<"]">> /\ operation_count_max_ >= 1) =>
            Raises(BracketMismatchUnopened) ]_vars

\* a stray `]` failed on a non-zero cell with input still unread
C6_Witness ==
  /\ pc = "error"
  /\ err = BracketMismatchUnopened
  /\ Cell # 0
  /\ in_pos < Len(input)

\* C7: a `[` dispatched raises BracketMismatchUnclosed exactly when the cell is
\* zero and no `]` matches it by nesting depth.
C7_UnclosedExactlyWhenNoMatch ==
  [][ Dispatching({"["}) =>
        (Raises(BracketMismatchUnclosed) <=> (Cell = 0 /\ MatchClose(code, cp) = 0)) ]_vars

\* C8: TapeUnderflow is raised exactly when `<` is dispatched with the pointer
\* at the first cell; the pointer, the cells and the tape length are then as
\* before the step; a `<` dispatched anywhere else moves the pointer one cell
\* to the left and raises nothing.
C8_UnderflowExactlyAtFirstCell ==
  [][ /\ Raises(TapeUnderflow) <=> (Dispatching({"<"}) /\ slot_ = 1)
      /\ Raises(TapeUnderflow) => UNCHANGED <<slot_, slots_>>
      /\ (Dispatching({"<"}) /\ slot_ > 1) =>
            /\ slot_' = slot_ - 1
            /\ pc' = "run"
            /\ UNCHANGED slots_ ]_vars

\* `<` failed at the first cell of a tape that had already grown, and
\* elsewhere a `<` has moved the pointer back
C8_Witness ==
  /\ pc = "error"
  /\ err = TapeUnderflow
  /\ slot_ = 1
  /\ Len(slots_) = 2
  /\ h_dispatched = 3

\* C9: a `,` dispatched at end of input changes no cell and raises nothing; a
\* `,` dispatched with a byte available stores that byte in the current cell
\* and takes exactly that byte from the input.
C9_ReadKeepsCellAtEndOfInput ==
  [][ Dispatching({","}) =>
        /\ pc' = "run"
        /\ UNCHANGED <<slot_, out, stash>>
        /\ IF in_pos < Len(input)
           THEN /\ slots_' = [slots_ EXCEPT ![slot_] = input[in_pos + 1]]
                /\ in_pos' = in_pos + 1
           ELSE UNCHANGED <<slots_, in_pos>> ]_vars

\* three `,` on a one-byte input: the byte read first is still in the cell
C9_Witness ==
  /\ pc = "done"
  /\ code = <<",", ",", ",">>
  /\ input = <<255>>
  /\ in_pos = 1
  /\ Cell = 255

\* C10: the k-th `,` dispatched while input remains stores the k-th input
\* byte, each `.` appends the current cell to the output and nothing else
\* writes or reads, so n repetitions of `,.` on an input of at least n bytes
\* end with the first n input bytes as the output.
C10_InputAndOutputInDispatchOrder ==
  /\ [][ /\ (Dispatching({","}) /\ in_pos < Len(input)) =>
               /\ slots_'[slot_'] = input[h_reads + 1]
               /\ h_reads' = h_reads + 1
               /\ in_pos' = h_reads'
         /\ IF Dispatching({"."})
            THEN out' = Append(out, Cell)
            ELSE out' = out
         /\ in_pos' # in_pos => Dispatching({","}) ]_vars
  /\ [](\A n \in 0..MaxEchoLen :
          (pc = "done" /\ code = Echo(n) /\ Len(input) >= n) =>
            out = SubSeq(input, 1, n))

\* `,.,.,.` has copied a three-byte input whose bytes differ
C10_Witness ==
  /\ pc = "done"
  /\ code = Echo(3)
  /\ input = <<255, 0, 255>>
  /\ out = input

\* C11: every cell holds a value in 0..255; a dispatched `+` adds one to the
\* current cell and a dispatched `-` takes one from it, modulo 256 (255 goes
\* to 0, 0 goes to 255), they touch no other cell and raise nothing.
C11_CellsAreBytesAndWrap ==
  /\ [](\A i \in 1..Len(slots_) : slots_[i] \in 0..255)
  /\ [][ /\ Dispatching({"+"}) =>
               /\ slots_' = [slots_ EXCEPT
                               ![slot_] = IF @ = 255 THEN 0 ELSE @ + 1]
               /\ pc' = "run"
         /\ Dispatching({"-"}) =>
               /\ slots_' = [slots_ EXCEPT
                               ![slot_] = IF @ = 0 THEN 255 ELSE @ - 1]
               /\ pc' = "run" ]_vars

\* `,+-` on the byte 255: the cell went 255, 0 and back to 255
C11_Witness ==
  /\ pc = "done"
  /\ code = <<",", "+", "-">>
  /\ input = <<255>>
  /\ Cell = 255

\* C12: the step that raises an error leaves the tape, the input position and
\* the output as they were and ends the run; after it nothing changes any
\* more; and the output only ever grows by the current cell at a dispatched
\* `.`, so what is there at the error is what the earlier `.` wrote.
C12_ErrorEndsTheRun ==
  /\ [](err # NoError <=> pc = "error")
  /\ [][ /\ err # NoError => UNCHANGED vars
         /\ (err = NoError /\ err' # NoError) =>
               /\ pc' = "error"
               /\ UNCHANGED <<slots_, slot_, in_pos, out>>
         /\ out' # out => (Dispatching({"."}) /\ out' = Append(out, Cell)) ]_vars

\* `..<`: two bytes were written before the underflow and are still there
C12_Witness ==
  /\ pc = "error"
  /\ err = TapeUnderflow
  /\ out = <<0, 0>>
  /\ h_dispatched = 3

C14_ThereAndBack ==
  pc # "idle" =>
    LET n == Len(code) \div 2
    IN  /\ code = Shuttle(n)
        /\ err # TapeUnderflow
        /\ pc # "error"
        /\ pc = "run" => ENABLED NextShuttle
        /\ pc = "done" =>
              /\ slot_ = 1
              /\ Len(slots_) = n + 1
              /\ h_dispatched = 2 * n

\* `>>>>><<<<<` has ended with the pointer back on the first of six cells
C14_Witness ==
  /\ pc = "done"
  /\ code = Shuttle(5)
  /\ slot_ = 1
  /\ Len(slots_) = 6

\* C15: the loop stack is empty when the run starts; a `[` dispatched on a
\* non-zero cell pushes its own position, a `]` dispatched on a zero cell with
\* a non-empty stack pops one entry, and no other step changes the stack.
C15_StackChangesOnlyByPushAndPop ==
  /\ []((pc = "run" /\ h_dispatched = 0) => stash = <<>>)
  /\ [][ IF Dispatching({"["}) /\ Cell # 0
         THEN stash' = Append(stash, cp)
         ELSE IF Dispatching({"]"}) /\ Cell = 0 /\ stash # <<>>
         THEN stash' = SubSeq(stash, 1, Len(stash) - 1)
         ELSE stash' = stash ]_vars

\* `+[-]`: the `[` was pushed and the `]` on the zero cell has popped it
C15_Witness ==
  /\ pc = "done"
  /\ code = <<"+", "[", "-", "]">>
  /\ stash = <<>>
  /\ h_dispatched = 4

\* C16 as stated: a `]` dispatched on a non-zero cell with a non-empty stack
\* leaves the iterator on the stored `[` position and the stack unchanged.
C16_JumpLandsOnOpen ==
  [][ (Dispatching({"]"}) /\ stash # <<>> /\ Cell # 0) =>
        /\ cp' = stash[Len(stash)]
        /\ stash' = stash ]_vars

\* C16 as amended: that step leaves the iterator just after the stored `[`
\* position, so the `[` is not dispatched again, and the stack unchanged.
C16_JumpLandsAfterOpen ==
  [][ (Dispatching({"]"}) /\ stash # <<>> /\ Cell # 0) =>
        /\ pc' = "run"
        /\ cp' = stash[Len(stash)] + 1
        /\ stash' = stash ]_vars

\* `+[+]`: the `]` has jumped back and the `+` of the body is next, with the
\* stack still holding the one `[`
C16_Witness ==
  /\ pc = "run"
  /\ code = <<"+", "[", "+", "]">>
  /\ h_dispatched = 4
  /\ cp = 3
  /\ stash = <<2>>

\* the `[` whose loops enclose position p of c, outermost first: those before
\* p whose matching `]` (by nesting depth) is at p or after it
EnclosingOpens(c, p) ==
  LET Encloses(q) == c[q] = "[" /\ MatchClose(c, q) >= p
  IN  SelectSeq([q \in 1..(p - 1) |-> q], Encloses)

\* C17: in a program of balanced brackets, whenever a char is up for dispatch
\* the loop stack holds exactly the positions of the `[` whose loops enclose
\* it, outermost at the bottom.
C17_StackIsEnclosingLoops ==
  (pc = "run" /\ cp # code_end /\ Balanced(code)) =>
    stash = EnclosingOpens(code, cp)

\* C18: the pointer is always the index of an existing cell and the tape is
\* as long as the highest position the pointer has had (one more than the
\* highest index counted from 0); the tape never gets shorter; a dispatched
\* `>` moves the pointer one cell right and appends one zero cell exactly when
\* the pointer was on the last cell, keeping every existing cell; no other step
\* changes the length.
C18_PointerInsideGrowingTape ==
  /\ [](slot_ \in 1..Len(slots_) /\ Len(slots_) = h_high)
  /\ [][ /\ Len(slots_') >= Len(slots_)
         /\ IF Dispatching({">"})
            THEN /\ slot_' = slot_ + 1
                 /\ slots_' = IF slot_ = Len(slots_) THEN Append(slots_, 0)
                                                      ELSE slots_
            ELSE Len(slots_') = Len(slots_) ]_vars

\* `><>`: the second `>` moved onto the cell the first one had appended
C18_Witness ==
  /\ pc = "done"
  /\ code = <<">", "<", ">">>
  /\ slots_ = <<0, 0>>
  /\ slot_ = 2

\* C19: a char that is none of the eight opcodes, once dispatched, moves the
\* iterator one position on and changes neither the cells, the pointer, the
\* tape length, the loop stack, the input position nor the output; the only
\* error its step can raise is the ceiling's.
C19_OtherCharsOnlyAdvance ==
  [][ (pc = "run" /\ cp # code_end /\ code[cp] \notin Opcodes) =>
        /\ UNCHANGED <<slots_, slot_, stash, in_pos, out>>
        /\ IF Exceeded
           THEN Raises(OperationLimitExceeded) /\ cp' = cp
           ELSE pc' = "run" /\ cp' = cp + 1 /\ err' = NoError ]_vars

\* `+x.`: the `.` after the unknown char wrote the cell the `+` had set
C19_Witness ==
  /\ pc = "done"
  /\ code = <<"+", "x", ".">>
  /\ out = <<1>>
  /\ h_dispatched = 3

=============================================================================
